---- MODULE Spec2Model ----
(***************************************************************************)
(* Model of the Lightspeed example scripts of KubeHeal/self-healing-workshop *)
(* (examples/python): the HTTP client LightspeedClient and the alert        *)
(* responder handle_prometheus_alert with its helper extract_insights.      *)
(*                                                                         *)
(* Python values are modelled as records of one uniform shape, so that any *)
(* two of them can be compared: kind says which Python type the value has.  *)
(* Floats are carried in hundredths (0.8 is 80, 0.92 is 92, 1.0 is 100).    *)
(***************************************************************************)
EXTENDS Integers, Sequences, FiniteSets, TLC

VARIABLES
    mode,       \* which script's code is running: "idle", "alert_response", "client_demo"
    clock,      \* the wall clock read by datetime.now()
    pc,         \* pc[p]: position of invocation p of handle_prometheus_alert
    alert,      \* alert[p]: the alert dictionary passed to invocation p
    threshold,  \* threshold[p]: the threshold the caller of invocation p has configured
    context,    \* context[p]: the local variable context
    request,    \* request[p]: the payload posted to <server>/query, None before the post
    posts,      \* posts[p]: number of HTTP posts invocation p has issued
    outcome,    \* outcome[p]: what the HTTP layer did with the post
    analysis,   \* analysis[p]: the value client.query returned
    insights,   \* insights[p]: the value extract_insights returned
    compared,   \* compared[p]: whether line 95 (confidence > 0.8) has been evaluated
    result,     \* result[p]: the dictionary the handler returned
    exc,        \* exc[p]: the exception that left the handler, "" when none
    dpc,        \* position of lightspeed_client.main
    doutcome,   \* what the HTTP layer did with main's latest post
    dret,       \* the value main's latest client call returned
    waited,     \* waited[c]: how long the outstanding post of caller c has had no answer
    mpc,        \* position of monitor_cluster.main
    interval,   \* args.interval of monitor_cluster.main
    check_count,    \* the local check_count of monitor_cluster.main
    error_count,    \* the local error_count of monitor_cluster.main
    check_errors,   \* how often error_count was raised since check_count was last raised
    rate,       \* the latest evaluation of (check_count - error_count) / check_count
    moutcome,   \* what the HTTP layer did with the monitor's latest post
    mresp,      \* the value query_lightspeed returned last
    mexc,       \* the exception that left monitor_cluster.main, "" when none
    bpc,        \* position of analyze_pod_fleet
    bindex,     \* index into sample_pods of the pod the loop is at
    results,    \* the local list results of analyze_pod_fleet
    bposts,     \* number of HTTP posts analyze_pod_fleet has issued
    queried,    \* the pods an analysis query was issued for, in order
    replies,    \* replies[i]: what the HTTP layer did with the analysis post of row i
    bexc,       \* the exception that left analyze_pod_fleet, "" when none
    printed,    \* the text main of the responder has printed for the decision
    parsed      \* what reading the printed text back gave

hvars == <<pc, alert, threshold, context, request, posts, outcome, analysis,
           insights, compared, result, exc>>
dvars == <<dpc, doutcome, dret>>
mvars == <<mpc, interval, check_count, error_count, check_errors, rate, moutcome,
           mresp, mexc>>
bvars == <<bpc, bindex, results, bposts, queried, replies, bexc>>
jvars == <<printed, parsed>>
vars == <<mode, clock, pc, alert, threshold, context, request, posts, outcome,
          analysis, insights, compared, result, exc, dpc, doutcome, dret, waited,
          mpc, interval, check_count, error_count, check_errors, rate, moutcome,
          mresp, mexc, bpc, bindex, results, bposts, queried, replies, bexc,
          printed, parsed>>

----------------------------------------------------------------------------
(* Bounds and program constants *)

MaxClock == 2

\* The monitoring loop is followed for this many health checks.
MaxChecks == 10

CONFIDENCE_THRESHOLD == 80

HTTP_OK == 200

DEFAULT_TIMEOUT == 30

Procs == {1, 2}

\* The invocations the sequential caller (main) makes: one at a time.
MainProcs == {1}

\* The script's own client, as a caller of the HTTP layer next to the
\* clients the invocations create.
MainClient == 0

Callers == Procs \cup {MainClient}

----------------------------------------------------------------------------
(* Python values *)

NoItems == [k \in {} |-> 0]

PyNone == [kind |-> "none", n |-> 0, s |-> "", xs |-> <<>>, items |-> NoItems]

PyNum(n) == [kind |-> "num", n |-> n, s |-> "", xs |-> <<>>, items |-> NoItems]

PyStr(s) == [kind |-> "str", n |-> 0, s |-> s, xs |-> <<>>, items |-> NoItems]

PyList(xs) == [kind |-> "list", n |-> 0, s |-> "", xs |-> xs, items |-> NoItems]

PyDict(items) == [kind |-> "dict", n |-> 0, s |-> "", xs |-> <<>>, items |-> items]

\* The result of evaluating a Python expression: a value, or an exception.
Return(v) == [raised |-> "", val |-> v]

Raise(e) == [raised |-> e, val |-> PyNone]

Keys(v) == DOMAIN v.items

\* Words a string of the model may be built from, for the substring test.
Fragments == {"", "an ", " occurred", "ok", "all pods "}

\* sub in s, for two Python strings.
StrContains(sub, s) == \E pre \in Fragments, post \in Fragments : s = pre \o sub \o post

\* key in v  (raises TypeError when v is not a container)
PyIn(key, v) ==
    CASE v.kind = "dict" -> Return(key \in Keys(v))
      [] v.kind = "list" -> Return(\E i \in 1..Len(v.xs) : v.xs[i] = key)
      [] v.kind = "str"  -> Return(StrContains(key, v.s))
      [] OTHER           -> Raise("TypeError")

\* v[key] for a string key
PyIndex(v, key) ==
    CASE v.kind = "dict" -> IF key \in Keys(v) THEN Return(v.items[key]) ELSE Raise("KeyError")
      [] OTHER           -> Raise("TypeError")

\* v.get(key) with the default forgotten: None for an absent key
PyGet_NoDefault(v, key, default) ==
    IF v.kind = "dict"
    THEN Return(IF key \in Keys(v) THEN v.items[key] ELSE PyNone)
    ELSE Raise("AttributeError")

\* v.get(key, default): only dictionaries have the method
PyGet(v, key, default) ==
    IF v.kind = "dict"
    THEN Return(IF key \in Keys(v) THEN v.items[key] ELSE default)
    ELSE Raise("AttributeError")

\* v > n for a float n: numbers compare, everything else raises TypeError
PyGt(v, n) ==
    IF v.kind = "num" THEN Return(v.n > n) ELSE Raise("TypeError")

----------------------------------------------------------------------------
(* The HTTP layer (requests) as LightspeedClient sees it *)

\* What session.post did: it raised exc with str(e) = text, or (exc = "") it
\* returned a response with status_code = status and body text = text.
\* jsonexc is the class response.json() raises on a body that is no JSON:
\* requests.exceptions.JSONDecodeError in requests >= 2.27, ValueError before.
Response(status, text, jsonexc) ==
    [exc |-> "", status |-> status, text |-> text, jsonexc |-> jsonexc]

Raised(cls, msg) ==
    [exc |-> cls, status |-> 0, text |-> msg, jsonexc |-> "ValueError"]

NoOutcome == [exc |-> "", status |-> 0, text |-> "", jsonexc |-> "ValueError"]

\* The subclasses of requests.exceptions.RequestException that occur here.
RequestExceptions == {"ConnectionError", "Timeout", "RequestsJSONDecodeError"}

TransportFailures ==
    { Raised("ConnectionError", "Connection refused"),
      Raised("ConnectionError", "Name or service not known"),
      Raised("Timeout", "Read timed out."),
      Raised("Timeout", "") }

StatusCodes == {HTTP_OK, 201, 404, 500}

ErrorTexts == {"", "Internal Server Error"}

\* Bodies the assistant may send, with the value json.loads gives for each.
JsonBodies ==
    { <<"{\"answer\":\"Restart pod\",\"confidence\":0.92,\"sources\":[\"kb\"],\"recommendations\":[\"restart\"]}",
        PyDict([answer |-> PyStr("Restart pod"), confidence |-> PyNum(92),
                sources |-> PyList(<<"kb">>), recommendations |-> PyList(<<"restart">>)])>>,
      <<"{\"answer\":\"Unclear\",\"confidence\":0.45}",
        PyDict([answer |-> PyStr("Unclear"), confidence |-> PyNum(45)])>>,
      <<"{\"answer\":\"Scale up\",\"confidence\":0.8}",
        PyDict([answer |-> PyStr("Scale up"), confidence |-> PyNum(80)])>>,
      <<"{\"answer\":\"Scale up\",\"confidence\":0.81}",
        PyDict([answer |-> PyStr("Scale up"), confidence |-> PyNum(81)])>>,
      <<"{\"answer\":\"Restart pod\"}",
        PyDict([answer |-> PyStr("Restart pod")])>>,
      <<"{\"answer\":\"All pods Running\"}",
        PyDict([answer |-> PyStr("All pods Running")])>>,
      <<"{\"answer\":null}", PyDict([answer |-> PyNone])>>,
      <<"{}", PyDict(NoItems)>>,
      <<"{\"confidence\":null}", PyDict([confidence |-> PyNone])>>,
      <<"{\"confidence\":\"high\"}", PyDict([confidence |-> PyStr("high")])>>,
      <<"{\"error\":\"model unavailable\"}",
        PyDict([error |-> PyStr("model unavailable")])>>,
      <<"{\"error\":\"\"}", PyDict([error |-> PyStr("")])>>,
      <<"{\"error\":\"degraded\",\"answer\":\"Restart pod\",\"confidence\":0.92}",
        PyDict([error |-> PyStr("degraded"), answer |-> PyStr("Restart pod"),
                confidence |-> PyNum(92)])>>,
      <<"[]", PyList(<<>>)>>,
      <<"[\"error\"]", PyList(<<"error">>)>>,
      <<"\"ok\"", PyStr("ok")>>,
      <<"\"an error occurred\"", PyStr("an error occurred")>>,
      <<"null", PyNone>>,
      <<"42", PyNum(4200)>> }

\* Bodies that are no JSON.
BadBodies == {"", "<html>Bad Gateway</html>"}

\* response.json()
ParseJson(text, jsonexc) ==
    IF \E b \in JsonBodies : b[1] = text
    THEN Return((CHOOSE b \in JsonBodies : b[1] = text)[2])
    ELSE Raise(jsonexc)

\* timeout=self.timeout not handed to session.post: the post waits for ever
TimerExpired_NoTimeout(w) == FALSE

\* Lines 60-64, timeout=self.timeout (30 from __init__): the post has had no
\* answer for the whole timeout.
TimerExpired(w) == w >= DEFAULT_TIMEOUT

\* The outcomes a post can have after waiting w: a timeout once the timer has
\* expired, and only then.
Possible(o, w) == (o.exc = "Timeout") <=> TimerExpired(w)

\* Every outcome of one post.
Outcomes ==
    TransportFailures
    \cup {Response(HTTP_OK, b[1], "ValueError") : b \in JsonBodies}
    \cup {Response(HTTP_OK, t, c) : t \in BadBodies, c \in {"ValueError", "RequestsJSONDecodeError"}}
    \cup {Response(st, t, "ValueError") : st \in StatusCodes \ {HTTP_OK}, t \in ErrorTexts}
    \cup {Response(st, "{\"answer\":\"Restart pod\"}", "ValueError") : st \in StatusCodes \ {HTTP_OK}}

----------------------------------------------------------------------------
(* lightspeed_client.py: LightspeedClient *)

ErrorDict(msg) == PyDict([error |-> PyStr(msg)])

\* An exception of class cls whose str() is msg, on its way up.
RaiseMsg(cls, msg) == [raised |-> cls, val |-> PyStr(msg)]

\* Classes derived from Exception; KeyboardInterrupt and SystemExit are not.
ExceptionClasses ==
    RequestExceptions \cup {"ValueError", "TypeError", "KeyError", "AttributeError"}

JsonErrorText == "Expecting value: line 1 column 1 (char 0)"

\* The payload query posts: context or {} replaces a falsy context.
QueryPayload(question, ctx) ==
    PyDict([question |-> PyStr(question),
            context |-> IF ctx.kind = "dict" /\ Keys(ctx) # {} THEN ctx ELSE PyDict(NoItems)])

\* The try block testing response.ok (status below 400) in place of == 200
TryBlock_StatusOk(o) ==
    IF o.exc # ""
    THEN RaiseMsg(o.exc, o.text)
    ELSE IF o.status < 400
         THEN LET j == ParseJson(o.text, o.jsonexc)
              IN  IF j.raised = "" THEN j ELSE RaiseMsg(j.raised, JsonErrorText)
         ELSE Return(ErrorDict("HTTP " \o ToString(o.status) \o ": " \o o.text))

\* The try block of query and get_recommendations, the post having ended as o.
TryBlock(o) ==
    IF o.exc # ""
    THEN RaiseMsg(o.exc, o.text)
    ELSE IF o.status = HTTP_OK
         THEN LET j == ParseJson(o.text, o.jsonexc)
              IN  IF j.raised = "" THEN j ELSE RaiseMsg(j.raised, JsonErrorText)
         ELSE Return(ErrorDict("HTTP " \o ToString(o.status) \o ": " \o o.text))

\* The except clauses without the final "except Exception"
ExceptClauses_OnlyRequestException(r) ==
    IF r.raised = "" THEN r
    ELSE IF r.raised \in RequestExceptions
    THEN Return(ErrorDict("Request failed: " \o r.val.s))
    ELSE r

\* The two except clauses: RequestException first, then Exception; anything
\* else goes on to the caller.
ExceptClauses(r) ==
    IF r.raised = "" THEN r
    ELSE IF r.raised \in RequestExceptions
    THEN Return(ErrorDict("Request failed: " \o r.val.s))
    ELSE IF r.raised \in ExceptionClasses
    THEN Return(ErrorDict("Unexpected error: " \o r.val.s))
    ELSE r

\* LightspeedClient.query, the post having ended as o.
Query(o) == ExceptClauses(TryBlock(o))

\* LightspeedClient.get_recommendations, the post having ended as o.
GetRecommendations(o) == ExceptClauses(TryBlock(o))

----------------------------------------------------------------------------
(* pattern_alert_response.py: extract_insights *)

\* datetime.now().isoformat() at clock reading t
IsoFormat(t) == "2026-01-01T00:00:0" \o ToString(t)

\* extract_insights(response), called when the clock reads now
extract_insights(response, now) ==
    LET hasError == PyIn("error", response)
    IN  IF hasError.raised # "" THEN Raise(hasError.raised)
        ELSE IF hasError.val
        THEN LET msg == PyIndex(response, "error")
             IN  IF msg.raised # "" THEN Raise(msg.raised)
                 ELSE Return(PyDict([status |-> PyStr("error"), message |-> msg.val]))
        ELSE LET answer == PyGet(response, "answer", PyStr(""))
                 confidence == PyGet(response, "confidence", PyNum(0))
                 sources == PyGet(response, "sources", PyList(<<>>))
                 recommendations == PyGet(response, "recommendations", PyList(<<>>))
             IN  IF answer.raised # "" THEN Raise(answer.raised)
                 ELSE Return(PyDict([status |-> PyStr("success"),
                                     timestamp |-> PyStr(IsoFormat(now)),
                                     answer |-> answer.val,
                                     confidence |-> confidence.val,
                                     sources |-> sources.val,
                                     recommendations |-> recommendations.val]))

----------------------------------------------------------------------------
(* pattern_alert_response.py: handle_prometheus_alert *)

AlertNames == {"HighPodCPU", "DiskFull"}

SampleLabels == [namespace |-> "self-healing-platform", severity |-> "critical"]

LabelMaps ==
    { [k \in {"alertname"} \cup opt |->
          PyStr(IF k = "alertname" THEN name ELSE SampleLabels[k])] :
      name \in AlertNames, opt \in SUBSET {"namespace", "severity"} }

AnnotationMaps ==
    { NoItems,
      [summary |-> PyStr("High CPU usage detected")],
      [description |-> PyStr("Pod X using 85% CPU"),
       summary |-> PyStr("High CPU usage detected")],
      [description |-> PyStr("Disk 95% full")] }

\* Alerts with a name: with an annotations mapping (possibly empty), or with none.
Alerts ==
    { PyDict([labels |-> PyDict(l), annotations |-> PyDict(a)]) :
        l \in LabelMaps, a \in AnnotationMaps }
    \cup { PyDict([labels |-> PyDict(l)]) : l \in LabelMaps }

\* Thresholds a caller may have configured (hundredths).
Thresholds == {50, CONFIDENCE_THRESHOLD, 90}

\* Lines 70-75: the context dictionary
BuildContext(a) ==
    LET labels == PyIndex(a, "labels")
        name == PyIndex(labels.val, "alertname")
        namespace == PyGet(labels.val, "namespace", PyStr("default"))
        severity == PyGet(labels.val, "severity", PyStr("warning"))
        annotations == PyIndex(a, "annotations")
        description == PyGet(annotations.val, "description", PyStr(""))
    IN  IF labels.raised # "" THEN Raise(labels.raised)
        ELSE IF name.raised # "" THEN Raise(name.raised)
        ELSE IF namespace.raised # "" THEN Raise(namespace.raised)
        ELSE IF annotations.raised # "" THEN Raise(annotations.raised)
        ELSE IF description.raised # "" THEN Raise(description.raised)
        ELSE Return(PyDict([alert_name |-> name.val,
                            namespace |-> namespace.val,
                            severity |-> severity.val,
                            description |-> description.val]))

\* Line 81: the question, formatted from the context's description
BuildQuestion(ctx) ==
    "Analyze this alert and suggest remediation: " \o ctx.items["description"].s

\* Line 88: the insights report an error
IsErrorInsight(ins) == ins.items["status"] = PyStr("error")

\* Line 95 comparing against the threshold the caller of the running
\* invocation has configured, in place of the literal
HighConfidence_Injected(ins) ==
    LET t == threshold[CHOOSE p \in Procs : pc[p] = "extracted"]
    IN  IF ins.items["confidence"].kind = "num"
        THEN Return(ins.items["confidence"].n > t)
        ELSE Raise("TypeError")

\* Line 95 with >= in place of >
HighConfidence_GreaterOrEqual(ins) ==
    IF ins.items["confidence"].kind = "num"
    THEN Return(ins.items["confidence"].n >= CONFIDENCE_THRESHOLD)
    ELSE Raise("TypeError")

\* Line 95: insights['confidence'] > 0.8
HighConfidence(ins) == PyGt(ins.items["confidence"], CONFIDENCE_THRESHOLD)

\* The error decision with a confidence field added
ErrorDecision_WithConfidence(ins) ==
    PyDict([action |-> PyStr("error"), message |-> ins.items["message"],
            confidence |-> PyNum(0)])

\* The error decision with the message rewritten
ErrorDecision_WrappedMessage(ins) ==
    PyDict([action |-> PyStr("error"),
            message |-> PyStr("Analysis failed: " \o ins.items["message"].s)])

\* Lines 89-92: the decision returned for insights that report an error
ErrorDecision(ins) ==
    PyDict([action |-> PyStr("error"), message |-> ins.items["message"]])

\* The decision with the Insight's timestamp copied into auto_remediate
Decide_WithTimestamp(ins, a) ==
    IF IsErrorInsight(ins)
    THEN Return(ErrorDecision(ins))
    ELSE LET high == HighConfidence(ins)
             name == a.items["labels"].items["alertname"]
         IN  IF high.raised # "" THEN Raise(high.raised)
             ELSE IF high.val
             THEN Return(PyDict([action |-> PyStr("auto_remediate"),
                                 alert |-> name,
                                 confidence |-> ins.items["confidence"],
                                 recommendations |-> ins.items["recommendations"],
                                 analysis |-> ins.items["answer"],
                                 timestamp |-> ins.items["timestamp"]]))
             ELSE Return(PyDict([action |-> PyStr("escalate"),
                                 alert |-> name,
                                 confidence |-> ins.items["confidence"],
                                 analysis |-> ins,
                                 reason |-> PyStr("Low confidence in automated remediation")]))

\* Lines 88-112: the decision taken on the insights
Decide(ins, a) ==
    IF IsErrorInsight(ins)
    THEN Return(ErrorDecision(ins))
    ELSE LET high == HighConfidence(ins)
             name == a.items["labels"].items["alertname"]
         IN  IF high.raised # "" THEN Raise(high.raised)
             ELSE IF high.val
             THEN Return(PyDict([action |-> PyStr("auto_remediate"),
                                 alert |-> name,
                                 confidence |-> ins.items["confidence"],
                                 recommendations |-> ins.items["recommendations"],
                                 analysis |-> ins.items["answer"]]))
             ELSE Return(PyDict([action |-> PyStr("escalate"),
                                 alert |-> name,
                                 confidence |-> ins.items["confidence"],
                                 analysis |-> ins,
                                 reason |-> PyStr("Low confidence in automated remediation")]))

----------------------------------------------------------------------------
(* json.dumps(result, indent=2) and the parser that reads it back *)

\* The character of s at position i, counted from 1.
Char(s, i) == SubSeq(s, i, i)

Digits == <<"0", "1", "2", "3", "4", "5", "6", "7", "8", "9">>

IsDigit(c) == \E d \in 1..10 : Digits[d] = c

DigitValue(c) == (CHOOSE d \in 1..10 : Digits[d] = c) - 1

\* The first position from i on whose character is one of cs, Len(s) + 1 when
\* there is none.
NextOf(s, i, cs) ==
    IF \E k \in i..Len(s) : Char(s, k) \in cs
    THEN CHOOSE k \in i..Len(s) :
            /\ Char(s, k) \in cs
            /\ \A m \in i..(k - 1) : Char(s, m) \notin cs
    ELSE Len(s) + 1

\* The body of a JSON string: quote, backslash and newline are escaped, the
\* stretches between them are copied.
RECURSIVE EscapeFrom(_, _)
EscapeFrom(s, i) ==
    LET k == NextOf(s, i, {"\"", "\\", "\n"})
    IN  IF k > Len(s) THEN SubSeq(s, i, Len(s))
        ELSE SubSeq(s, i, k - 1)
             \o (CASE Char(s, k) = "\"" -> "\\\""
                    [] Char(s, k) = "\\" -> "\\\\"
                    [] OTHER             -> "\\n")
             \o EscapeFrom(s, k + 1)

DumpString(s) == "\"" \o EscapeFrom(s, 1) \o "\""

\* A number with one decimal only, as '%.1f' prints it
FormatNumber_OneDecimal(n) ==
    ToString(n \div 100) \o "." \o ToString((n % 100) \div 10)

\* float.__repr__ for a number held in hundredths: 0.92, 0.8, 0.0
FormatNumber(n) ==
    LET whole == n \div 100
        frac == n % 100
    IN  ToString(whole) \o "." \o
        (IF frac % 10 = 0 THEN ToString(frac \div 10)
         ELSE (IF frac < 10 THEN "0" ELSE "") \o ToString(frac))

RECURSIVE Indent(_)
Indent(level) == IF level = 0 THEN "" ELSE "  " \o Indent(level - 1)

\* The keys of the decisions and of the Insight, in the order the code inserts them.
KeyOrder ==
    <<"action", "alert", "status", "timestamp", "answer", "confidence", "sources",
      "recommendations", "analysis", "reason", "message">>

OrderedKeys(v) == SelectSeq(KeyOrder, LAMBDA k : k \in Keys(v))

RECURSIVE DumpValue(_, _), DumpMembers(_, _, _, _), DumpElements(_, _, _)
DumpElements(xs, i, level) ==
    Indent(level) \o DumpString(xs[i]) \o
    (IF i = Len(xs) THEN "" ELSE ",\n" \o DumpElements(xs, i + 1, level))

DumpMembers(v, ks, i, level) ==
    Indent(level) \o DumpString(ks[i]) \o ": " \o DumpValue(v.items[ks[i]], level) \o
    (IF i = Len(ks) THEN "" ELSE ",\n" \o DumpMembers(v, ks, i + 1, level))

DumpValue(v, level) ==
    CASE v.kind = "none" -> "null"
      [] v.kind = "num"  -> FormatNumber(v.n)
      [] v.kind = "str"  -> DumpString(v.s)
      [] v.kind = "list" ->
            IF v.xs = <<>> THEN "[]"
            ELSE "[\n" \o DumpElements(v.xs, 1, level + 1) \o "\n" \o Indent(level) \o "]"
      [] v.kind = "dict" ->
            IF OrderedKeys(v) = <<>> THEN "{}"
            ELSE "{\n" \o DumpMembers(v, OrderedKeys(v), 1, level + 1)
                 \o "\n" \o Indent(level) \o "}"

\* json.dumps(v, indent=2)
Dumps(v) == DumpValue(v, 0)

\* A parse that failed, and one that produced v and stopped before position pos.
ParseFailed == [ok |-> FALSE, val |-> PyNone, pos |-> 0]

Parsed(v, pos) == [ok |-> TRUE, val |-> v, pos |-> pos]

RECURSIVE SkipSpace(_, _)
SkipSpace(s, i) ==
    IF i <= Len(s) /\ Char(s, i) \in {" ", "\n", "\t", "\r"}
    THEN SkipSpace(s, i + 1)
    ELSE i

\* The string whose opening quote precedes position i.
RECURSIVE ScanString(_, _, _)
ScanString(s, i, acc) ==
    LET k == NextOf(s, i, {"\"", "\\"})
        read == acc \o SubSeq(s, i, k - 1)
    IN  IF k > Len(s) THEN ParseFailed
        ELSE IF Char(s, k) = "\"" THEN Parsed(PyStr(read), k + 1)
        ELSE IF k + 1 > Len(s) THEN ParseFailed
        ELSE LET e == Char(s, k + 1)
             IN  CASE e = "\"" -> ScanString(s, k + 2, read \o "\"")
                   [] e = "\\" -> ScanString(s, k + 2, read \o "\\")
                   [] e = "n"  -> ScanString(s, k + 2, read \o "\n")
                   [] OTHER    -> ParseFailed

\* The digits from position i on: their value, how many, and where they end.
RECURSIVE ScanDigits(_, _, _, _)
ScanDigits(s, i, acc, count) ==
    IF i <= Len(s) /\ IsDigit(Char(s, i))
    THEN ScanDigits(s, i + 1, acc * 10 + DigitValue(Char(s, i)), count + 1)
    ELSE [value |-> acc, count |-> count, pos |-> i]

\* A number, in hundredths; more than two decimals are beyond the model.
ScanNumber(s, i) ==
    LET whole == ScanDigits(s, i, 0, 0)
    IN  IF whole.pos <= Len(s) /\ Char(s, whole.pos) = "."
        THEN LET frac == ScanDigits(s, whole.pos + 1, 0, 0)
             IN  CASE frac.count = 1 -> Parsed(PyNum(whole.value * 100 + frac.value * 10), frac.pos)
                   [] frac.count = 2 -> Parsed(PyNum(whole.value * 100 + frac.value), frac.pos)
                   [] OTHER          -> ParseFailed
        ELSE Parsed(PyNum(whole.value * 100), whole.pos)

RECURSIVE ParseValue(_, _), ParseElements(_, _, _), ParseMembers(_, _, _)
ParseElements(s, i, acc) ==
    LET e == ParseValue(s, i)
        j == SkipSpace(s, e.pos)
    IN  IF ~e.ok \/ e.val.kind # "str" \/ j > Len(s) THEN ParseFailed
        ELSE CASE Char(s, j) = "," -> ParseElements(s, j + 1, Append(acc, e.val.s))
               [] Char(s, j) = "]" -> Parsed(PyList(Append(acc, e.val.s)), j + 1)
               [] OTHER            -> ParseFailed

ParseMembers(s, i, items) ==
    LET k == SkipSpace(s, i)
        key == IF k <= Len(s) /\ Char(s, k) = "\"" THEN ScanString(s, k + 1, "") ELSE ParseFailed
        colon == SkipSpace(s, key.pos)
        v == IF key.ok /\ colon <= Len(s) /\ Char(s, colon) = ":"
             THEN ParseValue(s, colon + 1) ELSE ParseFailed
        j == SkipSpace(s, v.pos)
        added == [x \in DOMAIN items \cup {key.val.s} |->
                    IF x = key.val.s THEN v.val ELSE items[x]]
    IN  IF ~v.ok \/ j > Len(s) THEN ParseFailed
        ELSE CASE Char(s, j) = "," -> ParseMembers(s, j + 1, added)
               [] Char(s, j) = "}" -> Parsed(PyDict(added), j + 1)
               [] OTHER            -> ParseFailed

ParseValue(s, i0) ==
    LET i == SkipSpace(s, i0)
    IN  IF i > Len(s) THEN ParseFailed
        ELSE LET c == Char(s, i)
                 j == SkipSpace(s, i + 1)
             IN  CASE c = "n"  -> IF i + 3 <= Len(s) /\ SubSeq(s, i, i + 3) = "null"
                                  THEN Parsed(PyNone, i + 4) ELSE ParseFailed
                   [] c = "\"" -> ScanString(s, i + 1, "")
                   [] c = "["  -> IF j <= Len(s) /\ Char(s, j) = "]"
                                  THEN Parsed(PyList(<<>>), j + 1)
                                  ELSE ParseElements(s, i + 1, <<>>)
                   [] c = "{"  -> IF j <= Len(s) /\ Char(s, j) = "}"
                                  THEN Parsed(PyDict(NoItems), j + 1)
                                  ELSE ParseMembers(s, i + 1, NoItems)
                   [] OTHER    -> IF IsDigit(c) THEN ScanNumber(s, i) ELSE ParseFailed

\* json.loads(s): the value, or JSONDecodeError; nothing may follow the value.
Loads(s) ==
    LET r == ParseValue(s, 1)
    IN  IF r.ok /\ SkipSpace(s, r.pos) > Len(s) THEN Return(r.val) ELSE Raise("JSONDecodeError")

\* Nothing has been read back.
NotRead == [read |-> FALSE, raised |-> "", val |-> PyNone]

----------------------------------------------------------------------------
(* The state machine *)

\* No success rate computed yet.
NoRate == [computed |-> FALSE, raised |-> "", num |-> 0, den |-> 0]

Init ==
    /\ mode = "idle"
    /\ clock = 0
    /\ pc = [p \in Procs |-> "idle"]
    /\ alert = [p \in Procs |-> PyNone]
    /\ threshold = [p \in Procs |-> CONFIDENCE_THRESHOLD]
    /\ context = [p \in Procs |-> PyNone]
    /\ request = [p \in Procs |-> PyNone]
    /\ posts = [p \in Procs |-> 0]
    /\ outcome = [p \in Procs |-> NoOutcome]
    /\ analysis = [p \in Procs |-> PyNone]
    /\ insights = [p \in Procs |-> PyNone]
    /\ compared = [p \in Procs |-> FALSE]
    /\ result = [p \in Procs |-> PyNone]
    /\ exc = [p \in Procs |-> ""]
    /\ dpc = "idle"
    /\ doutcome = NoOutcome
    /\ dret = PyNone
    /\ waited = [c \in Callers |-> 0]
    /\ mpc = "idle"
    /\ interval = 0
    /\ check_count = 0
    /\ error_count = 0
    /\ check_errors = 0
    /\ rate = NoRate
    /\ moutcome = NoOutcome
    /\ mresp = PyNone
    /\ mexc = ""
    /\ bpc = "idle"
    /\ bindex = 0
    /\ results = <<>>
    /\ bposts = 0
    /\ queried = <<>>
    /\ replies = <<>>
    /\ bexc = ""
    /\ printed = ""
    /\ parsed = NotRead

\* The positions at which an exception has left handle_prometheus_alert.
RaisedPcs == {"raised_build", "raised_query", "raised_extract", "raised_decide"}

\* Time passes.
Tick ==
    /\ clock < MaxClock
    /\ clock' = clock + 1
    /\ UNCHANGED <<mode, hvars, dvars, waited, mvars, bvars, jvars>>

\* handle_prometheus_alert(a, server_url) is called, by a caller configured with t.
Invoke(p, a, t) ==
    /\ mode \in {"idle", "alert_response"}
    /\ pc[p] = "idle"
    /\ mode' = "alert_response"
    /\ pc' = [pc EXCEPT ![p] = "called"]
    /\ alert' = [alert EXCEPT ![p] = a]
    /\ threshold' = [threshold EXCEPT ![p] = t]
    /\ UNCHANGED <<clock, context, request, posts, outcome, analysis, insights,
                   compared, result, exc, dvars, waited, mvars, bvars, jvars>>

\* The context kept in one module-level dictionary that all invocations write
Build_SharedContext(p) ==
    /\ pc[p] = "called"
    /\ LET c == BuildContext(alert[p])
       IN  IF c.raised = ""
           THEN /\ context' = [q \in Procs |-> IF pc[q] = "idle" THEN context[q] ELSE c.val]
                /\ pc' = [pc EXCEPT ![p] = "built"]
                /\ exc' = exc
           ELSE /\ context' = context
                /\ pc' = [pc EXCEPT ![p] = "raised_build"]
                /\ exc' = [exc EXCEPT ![p] = c.raised]
    /\ UNCHANGED <<mode, clock, alert, threshold, request, posts, outcome, analysis,
                   insights, compared, result, dvars, waited, mvars, bvars, jvars>>

\* Lines 70-75: build the context; a failing subscript leaves the handler.
Build(p) ==
    /\ pc[p] = "called"
    /\ LET c == BuildContext(alert[p])
       IN  IF c.raised = ""
           THEN /\ context' = [context EXCEPT ![p] = c.val]
                /\ pc' = [pc EXCEPT ![p] = "built"]
                /\ exc' = exc
           ELSE /\ context' = context
                /\ pc' = [pc EXCEPT ![p] = "raised_build"]
                /\ exc' = [exc EXCEPT ![p] = c.raised]
    /\ UNCHANGED <<mode, clock, alert, threshold, request, posts, outcome, analysis,
                   insights, compared, result, dvars, waited, mvars, bvars, jvars>>

\* Lines 78-83 and client lines 55-64: create the client, post the payload.
SendQuery(p) ==
    /\ pc[p] = "built"
    /\ request' = [request EXCEPT ![p] = QueryPayload(BuildQuestion(context[p]), context[p])]
    /\ posts' = [posts EXCEPT ![p] = @ + 1]
    /\ pc' = [pc EXCEPT ![p] = "waiting"]
    /\ UNCHANGED <<mode, clock, alert, threshold, context, outcome, analysis,
                   insights, compared, result, exc, dvars, waited, mvars, bvars, jvars>>

\* query with a retry added: a failed post is posted again
QueryReturns_RetryOnFailure(p, o) ==
    /\ pc[p] = "waiting"
    /\ Possible(o, waited[p])
    /\ waited' = [waited EXCEPT ![p] = 0]
    /\ outcome' = [outcome EXCEPT ![p] = o]
    /\ IF (o.exc # "" \/ o.status # HTTP_OK) /\ posts[p] < 3
       THEN /\ posts' = [posts EXCEPT ![p] = @ + 1]
            /\ UNCHANGED <<analysis, pc>>
       ELSE /\ analysis' = [analysis EXCEPT ![p] = Query(o).val]
            /\ pc' = [pc EXCEPT ![p] = "queried"]
            /\ posts' = posts
    /\ UNCHANGED <<mode, clock, alert, threshold, context, request,
                   insights, compared, result, exc, dvars, mvars, bvars, jvars>>

\* Caller c has a post outstanding.
Posted(c) ==
    IF c = MainClient THEN dpc \in {"query_posted", "recs_posted"} ELSE pc[c] = "waiting"

\* Client lines 60-64: the post of caller c goes on waiting for an answer.
Wait(c) ==
    /\ Posted(c)
    /\ waited[c] < DEFAULT_TIMEOUT
    /\ waited' = [waited EXCEPT ![c] = @ + 1]
    /\ UNCHANGED <<mode, clock, hvars, dvars, mvars, bvars, jvars>>

\* Client lines 66-73: the post ends as o and query returns.
QueryReturns(p, o) ==
    /\ pc[p] = "waiting"
    /\ Possible(o, waited[p])
    /\ waited' = [waited EXCEPT ![p] = 0]
    /\ outcome' = [outcome EXCEPT ![p] = o]
    /\ LET r == Query(o)
       IN  IF r.raised = ""
           THEN /\ analysis' = [analysis EXCEPT ![p] = r.val]
                /\ pc' = [pc EXCEPT ![p] = "queried"]
                /\ exc' = exc
           ELSE /\ analysis' = analysis
                /\ pc' = [pc EXCEPT ![p] = "raised_query"]
                /\ exc' = [exc EXCEPT ![p] = r.raised]
    /\ UNCHANGED <<mode, clock, alert, threshold, context, request, posts,
                   insights, compared, result, dvars, mvars, bvars, jvars>>

\* Line 86: insights = extract_insights(analysis)
Extract(p) ==
    /\ pc[p] = "queried"
    /\ LET i == extract_insights(analysis[p], clock)
       IN  IF i.raised = ""
           THEN /\ insights' = [insights EXCEPT ![p] = i.val]
                /\ pc' = [pc EXCEPT ![p] = "extracted"]
                /\ exc' = exc
           ELSE /\ insights' = insights
                /\ pc' = [pc EXCEPT ![p] = "raised_extract"]
                /\ exc' = [exc EXCEPT ![p] = i.raised]
    /\ UNCHANGED <<mode, clock, alert, threshold, context, request, posts, outcome,
                   analysis, compared, result, dvars, waited, mvars, bvars, jvars>>

\* Lines 88-112: return the decision.
Act(p) ==
    /\ pc[p] = "extracted"
    /\ compared' = [compared EXCEPT ![p] = ~IsErrorInsight(insights[p])]
    /\ LET d == Decide(insights[p], alert[p])
       IN  IF d.raised = ""
           THEN /\ result' = [result EXCEPT ![p] = d.val]
                /\ pc' = [pc EXCEPT ![p] = "done"]
                /\ exc' = exc
           ELSE /\ result' = result
                /\ pc' = [pc EXCEPT ![p] = "raised_decide"]
                /\ exc' = [exc EXCEPT ![p] = d.raised]
    /\ UNCHANGED <<mode, clock, alert, threshold, context, request, posts, outcome,
                   analysis, insights, dvars, waited, mvars, bvars, jvars>>

\* The caller has taken the decision (or the exception); the frame is gone.
Finish(p) ==
    /\ pc[p] \in {"done"} \cup RaisedPcs
    /\ pc' = [pc EXCEPT ![p] = "idle"]
    /\ alert' = [alert EXCEPT ![p] = PyNone]
    /\ threshold' = [threshold EXCEPT ![p] = CONFIDENCE_THRESHOLD]
    /\ context' = [context EXCEPT ![p] = PyNone]
    /\ request' = [request EXCEPT ![p] = PyNone]
    /\ posts' = [posts EXCEPT ![p] = 0]
    /\ outcome' = [outcome EXCEPT ![p] = NoOutcome]
    /\ analysis' = [analysis EXCEPT ![p] = PyNone]
    /\ insights' = [insights EXCEPT ![p] = PyNone]
    /\ compared' = [compared EXCEPT ![p] = FALSE]
    /\ result' = [result EXCEPT ![p] = PyNone]
    /\ exc' = [exc EXCEPT ![p] = ""]
    /\ mode' = IF \A q \in Procs \ {p} : pc[q] = "idle" THEN "idle" ELSE mode
    /\ printed' = ""
    /\ parsed' = NotRead
    /\ UNCHANGED <<clock, dvars, waited, mvars, bvars>>

\* main, line 168: the decision is printed as JSON.
DumpResult(p) ==
    /\ pc[p] = "done"
    /\ printed = ""
    /\ printed' = Dumps(result[p])
    /\ UNCHANGED <<mode, clock, hvars, dvars, waited, mvars, bvars, parsed>>

\* The printed decision is read back.
ReadBack ==
    /\ printed # ""
    /\ ~parsed.read
    /\ parsed' = [read |-> TRUE] @@ Loads(printed)
    /\ UNCHANGED <<mode, clock, hvars, dvars, waited, mvars, bvars, printed>>

----------------------------------------------------------------------------
(* lightspeed_client.py: main, the two example calls *)

\* Lines 152-155: Example 1 posts a query.
DemoQuery ==
    /\ mode = "idle"
    /\ dpc = "idle"
    /\ mode' = "client_demo"
    /\ dpc' = "query_posted"
    /\ UNCHANGED <<clock, hvars, doutcome, dret, waited, mvars, bvars, jvars>>

\* Client lines 66-73: the post ends as o and query returns to main.
DemoQueryReturns(o) ==
    /\ dpc = "query_posted"
    /\ Possible(o, waited[MainClient])
    /\ waited' = [waited EXCEPT ![MainClient] = 0]
    /\ doutcome' = o
    /\ LET r == Query(o)
       IN  IF r.raised = ""
           THEN dret' = r.val /\ dpc' = "query_returned"
           ELSE dret' = dret /\ dpc' = "query_raised"
    /\ UNCHANGED <<mode, clock, hvars, mvars, bvars, jvars>>

\* Lines 157-162: what printing the response does: nothing, or an exception.
DemoShow(response) ==
    LET hasError == PyIn("error", response)
    IN  IF hasError.raised # "" THEN hasError.raised
        ELSE IF hasError.val THEN PyIndex(response, "error").raised
        ELSE IF PyGet(response, "answer", PyStr("No answer provided")).raised # ""
        THEN "AttributeError"
        ELSE IF "confidence" \in Keys(response) /\ response.items["confidence"].kind # "num"
        THEN "TypeError"
        ELSE ""

\* Lines 157-179: print Example 1, then Example 2 posts to /recommendations.
DemoRecommend ==
    /\ dpc = "query_returned"
    /\ dpc' = IF DemoShow(dret) = "" THEN "recs_posted" ELSE "crashed"
    /\ UNCHANGED <<mode, clock, hvars, doutcome, dret, waited, mvars, bvars, jvars>>

\* Client lines 99-106: the post ends as o and get_recommendations returns.
DemoRecommendReturns(o) ==
    /\ dpc = "recs_posted"
    /\ Possible(o, waited[MainClient])
    /\ waited' = [waited EXCEPT ![MainClient] = 0]
    /\ doutcome' = o
    /\ LET r == GetRecommendations(o)
       IN  IF r.raised = ""
           THEN dret' = r.val /\ dpc' = "recs_returned"
           ELSE dret' = dret /\ dpc' = "recs_raised"
    /\ UNCHANGED <<mode, clock, hvars, mvars, bvars, jvars>>

\* Lines 181-188: print Example 2 and exit (also after a crash).
DemoExit ==
    /\ dpc \in {"recs_returned", "crashed", "query_raised", "recs_raised"}
    /\ dpc' = "idle"
    /\ doutcome' = NoOutcome
    /\ dret' = PyNone
    /\ mode' = "idle"
    /\ UNCHANGED <<clock, hvars, waited, mvars, bvars, jvars>>

----------------------------------------------------------------------------
(* monitor_cluster.py *)

\* response.ok: raise_for_status() raises for the statuses 400 to 599 only
ResponseOk(o) == ~(400 <= o.status /\ o.status < 600)

\* Line 50, the post having ended as o.
QueryLightspeedTry(o) ==
    IF o.exc # ""
    THEN RaiseMsg(o.exc, o.text)
    ELSE IF ResponseOk(o)
         THEN LET j == ParseJson(o.text, o.jsonexc)
              IN  IF j.raised = "" THEN j ELSE RaiseMsg(j.raised, JsonErrorText)
         ELSE Return(ErrorDict("HTTP " \o ToString(o.status) \o ": " \o o.text))

\* query_lightspeed, lines 44-54: the same two except clauses as the client's.
query_lightspeed(o) == ExceptClauses(QueryLightspeedTry(o))

\* str.lower() on the answers of JsonBodies; the other strings have no capitals.
Lower(s) ==
    CASE s = "All pods Running" -> "all pods running"
      [] s = "Restart pod"      -> "restart pod"
      [] s = "Scale up"         -> "scale up"
      [] s = "Unclear"          -> "unclear"
      [] OTHER                  -> s

\* Line 82
HealthyWords == {"healthy", "no issues", "running", "normal"}

\* check_cluster_health, lines 76-89, query_lightspeed having returned response.
check_cluster_health(response) ==
    LET failed == PyIn("error", response)
        answer == PyGet(response, "answer", PyStr(""))
    IN  IF failed.raised # "" THEN Raise(failed.raised)
        ELSE IF failed.val THEN Return(FALSE)
        ELSE IF answer.raised # "" THEN Raise(answer.raised)
        ELSE IF answer.val.kind # "str" THEN Raise("AttributeError")
        ELSE Return(\E word \in HealthyWords : StrContains(word, Lower(answer.val.s)))

\* Lines 186 and 198: (check_count - error_count) / check_count * 100, kept as
\* the fraction num / den.
SuccessRate(checks, errors) ==
    IF checks = 0
    THEN [computed |-> TRUE, raised |-> "ZeroDivisionError", num |-> 0, den |-> 0]
    ELSE [computed |-> TRUE, raised |-> "", num |-> (checks - errors) * 100, den |-> checks]

\* --interval is any int; time.sleep raises ValueError for a negative one.
Intervals == {-1, 60}

\* Lines 141-155: arguments parsed, banner printed, the connectivity post sent.
MonStart(iv) ==
    /\ mode = "idle"
    /\ mpc = "idle"
    /\ mode' = "monitor"
    /\ mpc' = "testing"
    /\ interval' = iv
    /\ UNCHANGED <<clock, hvars, dvars, waited, check_count, error_count, check_errors,
                   rate, moutcome, mresp, mexc, bvars, jvars>>

\* Lines 155-171: the connectivity post ends as o; exit on an error, else
\* the counters are set to zero and the loop is entered.
MonTestReturns(o) ==
    /\ mpc = "testing"
    /\ LET r == query_lightspeed(o)
           failed == PyIn("error", r.val)
       IN  /\ moutcome' = o
           /\ mresp' = r.val
           /\ IF failed.raised # ""
              THEN mpc' = "crashed" /\ mexc' = failed.raised
              ELSE IF failed.val
              THEN mpc' = "exited" /\ mexc' = "SystemExit"
              ELSE mpc' = "loop_top" /\ mexc' = mexc
    /\ check_count' = 0
    /\ error_count' = 0
    /\ check_errors' = 0
    /\ UNCHANGED <<mode, clock, hvars, dvars, waited, interval, rate, bvars, jvars>>

\* Lines 174-176 and 68-74: check_count += 1, then the health check posts.
MonCheck ==
    /\ mpc = "loop_top"
    /\ check_count < MaxChecks
    /\ check_count' = check_count + 1
    /\ check_errors' = 0
    /\ mpc' = "checking"
    /\ UNCHANGED <<mode, clock, hvars, dvars, waited, interval, error_count, rate,
                   moutcome, mresp, mexc, bvars, jvars>>

\* Lines 76-89 and 178-190: the post ends as o, the check returns or raises,
\* the counters and the periodic statistics follow, up to the call of sleep.
\* Lines 201-205 for an exception out of the check.
MonCheckReturns(o) ==
    /\ mpc = "checking"
    /\ LET r == query_lightspeed(o)
           healthy == check_cluster_health(r.val)
           errors == IF healthy.raised = "" /\ healthy.val
                     THEN error_count ELSE error_count + 1
       IN  /\ moutcome' = o
           /\ mresp' = r.val
           /\ error_count' = errors
           /\ check_errors' = check_errors + (errors - error_count)
           /\ IF healthy.raised # ""
              THEN mpc' = "handler_sleep" /\ rate' = rate
              ELSE /\ mpc' = "sleeping"
                   /\ rate' = IF check_count % 10 = 0
                              THEN SuccessRate(check_count, errors) ELSE rate
    /\ UNCHANGED <<mode, clock, hvars, dvars, waited, interval, check_count, mexc, bvars, jvars>>

\* Line 190: time.sleep(args.interval) returns, or raises ValueError, which
\* lines 201-204 catch and count.
MonSleep ==
    /\ mpc = "sleeping"
    /\ IF interval < 0
       THEN /\ error_count' = error_count + 1
            /\ check_errors' = check_errors + 1
            /\ mpc' = "handler_sleep"
       ELSE /\ mpc' = "loop_top"
            /\ UNCHANGED <<error_count, check_errors>>
    /\ UNCHANGED <<mode, clock, hvars, dvars, waited, interval, check_count, rate,
                   moutcome, mresp, mexc, bvars, jvars>>

\* Line 205: the sleep inside the except clause; what it raises leaves main.
MonHandlerSleep ==
    /\ mpc = "handler_sleep"
    /\ IF interval < 0
       THEN mpc' = "crashed" /\ mexc' = "ValueError"
       ELSE mpc' = "loop_top" /\ mexc' = mexc
    /\ UNCHANGED <<mode, clock, hvars, dvars, waited, interval, check_count, error_count,
                   check_errors, rate, moutcome, mresp, bvars, jvars>>

\* Lines 192-200: Ctrl+C inside the try block (which line 174 opens before
\* check_count += 1): the totals and the success rate are printed.
MonInterrupt ==
    /\ mpc \in {"loop_top", "checking", "sleeping"}
    /\ rate' = SuccessRate(check_count, error_count)
    /\ IF check_count = 0
       THEN mpc' = "crashed" /\ mexc' = "ZeroDivisionError"
       ELSE mpc' = "stopped" /\ mexc' = mexc
    /\ UNCHANGED <<mode, clock, hvars, dvars, waited, interval, check_count, error_count,
                   check_errors, moutcome, mresp, bvars, jvars>>

\* Ctrl+C outside the try block (line 155) or inside the except clause (line 205).
MonInterruptOutside ==
    /\ mpc \in {"testing", "handler_sleep"}
    /\ mpc' = "crashed"
    /\ mexc' = "KeyboardInterrupt"
    /\ UNCHANGED <<mode, clock, hvars, dvars, waited, interval, check_count, error_count,
                   check_errors, rate, moutcome, mresp, bvars, jvars>>

\* The process of the monitor is gone.
MonExit ==
    /\ mpc \in {"stopped", "exited", "crashed"}
    /\ mode' = "idle"
    /\ mpc' = "idle"
    /\ interval' = 0
    /\ check_count' = 0
    /\ error_count' = 0
    /\ check_errors' = 0
    /\ rate' = NoRate
    /\ moutcome' = NoOutcome
    /\ mresp' = PyNone
    /\ mexc' = ""
    /\ UNCHANGED <<clock, hvars, dvars, waited, bvars, jvars>>

----------------------------------------------------------------------------
(* pattern_batch_analysis.py *)

\* Lines 67-72
sample_pods ==
    << [name |-> "coordination-engine-0", status |-> "Running"],
       [name |-> "mcp-server-abc123", status |-> "Running"],
       [name |-> "predictive-analytics-predictor-xyz", status |-> "CrashLoopBackOff"],
       [name |-> "anomaly-detector-predictor-abc", status |-> "Error"] >>

\* s[:n]
Slice(s, n) == IF Len(s) <= n THEN s ELSE SubSeq(s, 1, n)

\* Lines 84-89: the row of a pod that is not running; slicing what is no string
\* (or adding '...' to a sliced list) raises TypeError.
AnalysedRow(pod, analysis_) ==
    LET answer == PyGet(analysis_, "answer", PyStr("No analysis available"))
        confidence == PyGet(analysis_, "confidence", PyNum(0))
    IN  IF answer.raised # "" THEN Raise(answer.raised)
        ELSE IF answer.val.kind # "str" THEN Raise("TypeError")
        ELSE Return([pod |-> pod.name,
                     status |-> pod.status,
                     analysis |-> Slice(answer.val.s, 100) \o "...",
                     confidence |-> confidence.val])

\* Lines 92-97: the row of a running pod.
HealthyRow(pod) ==
    [pod |-> pod.name, status |-> pod.status, analysis |-> "Pod is healthy",
     confidence |-> PyNum(100)]

\* Lines 48-55: the client is made and the pod list is asked for.
BatchStart ==
    /\ mode = "idle"
    /\ bpc = "idle"
    /\ mode' = "batch"
    /\ bpc' = "listing"
    /\ bposts' = 1
    /\ UNCHANGED <<clock, hvars, dvars, waited, mvars, bindex, results, queried,
                   replies, bexc, jvars>>

\* Lines 57-75: the pod list post ends as o; an error ends the analysis with
\* an empty frame, anything else starts the loop.
BatchListReturns(o) ==
    /\ bpc = "listing"
    /\ LET pods_response == Query(o)
           failed == PyIn("error", pods_response.val)
       IN  IF failed.raised # ""
           THEN bpc' = "crashed" /\ bexc' = failed.raised /\ bindex' = bindex
           ELSE IF failed.val
           THEN bpc' = "returned_empty" /\ bexc' = bexc /\ bindex' = bindex
           ELSE bpc' = "looping" /\ bexc' = bexc /\ bindex' = 1
    /\ UNCHANGED <<mode, clock, hvars, dvars, waited, mvars, results, bposts, queried,
                   replies, jvars>>

\* Lines 76-82 and 90-97: the next pod; a running pod gets its row at once,
\* for any other pod the analysis query is posted.
BatchNextPod ==
    /\ bpc = "looping"
    /\ bindex <= Len(sample_pods)
    /\ LET pod == sample_pods[bindex]
       IN  IF pod.status # "Running"
           THEN /\ bpc' = "analyzing"
                /\ bposts' = bposts + 1
                /\ queried' = Append(queried, pod.name)
                /\ UNCHANGED <<bindex, results, replies>>
           ELSE /\ results' = Append(results, HealthyRow(pod))
                /\ replies' = Append(replies, NoOutcome)
                /\ bindex' = bindex + 1
                /\ UNCHANGED <<bpc, bposts, queried>>
    /\ UNCHANGED <<mode, clock, hvars, dvars, waited, mvars, bexc, jvars>>

\* Lines 79-89: the analysis post ends as o and the row is appended.
BatchAnalysisReturns(o) ==
    /\ bpc = "analyzing"
    /\ LET row == AnalysedRow(sample_pods[bindex], Query(o).val)
       IN  IF row.raised # ""
           THEN /\ bpc' = "crashed"
                /\ bexc' = row.raised
                /\ UNCHANGED <<bindex, results, replies>>
           ELSE /\ bpc' = "looping"
                /\ results' = Append(results, row.val)
                /\ replies' = Append(replies, o)
                /\ bindex' = bindex + 1
                /\ bexc' = bexc
    /\ UNCHANGED <<mode, clock, hvars, dvars, waited, mvars, bposts, queried, jvars>>

\* Line 99: the loop is over, the frame of the rows is returned.
BatchReturn ==
    /\ bpc = "looping"
    /\ bindex > Len(sample_pods)
    /\ bpc' = "returned"
    /\ UNCHANGED <<mode, clock, hvars, dvars, waited, mvars, bindex, results, bposts,
                   queried, replies, bexc, jvars>>

\* main, lines 145-171: the frame is shown and the process ends.
BatchExit ==
    /\ bpc \in {"returned", "returned_empty", "crashed"}
    /\ mode' = "idle"
    /\ bpc' = "idle"
    /\ bindex' = 0
    /\ results' = <<>>
    /\ bposts' = 0
    /\ queried' = <<>>
    /\ replies' = <<>>
    /\ bexc' = ""
    /\ UNCHANGED <<clock, hvars, dvars, waited, mvars, jvars>>

----------------------------------------------------------------------------
(* Specification: one script runs at a time, the responder handles one alert
   at a time. *)

\* The responder and the client's own main.
ClientNext ==
    \/ Tick
    \/ \E p \in MainProcs, a \in Alerts, t \in Thresholds : Invoke(p, a, t)
    \/ \E p \in MainProcs : Build(p)
    \/ \E p \in MainProcs : SendQuery(p)
    \/ \E p \in MainProcs, o \in Outcomes : QueryReturns(p, o)
    \/ \E p \in MainProcs : Extract(p)
    \/ \E p \in MainProcs : Act(p)
    \/ \E p \in MainProcs : Finish(p)
    \/ DemoQuery
    \/ \E o \in Outcomes : DemoQueryReturns(o)
    \/ DemoRecommend
    \/ \E o \in Outcomes : DemoRecommendReturns(o)
    \/ DemoExit
    \/ \E c \in MainProcs \cup {MainClient} : Wait(c)

\* The monitor.
MonitorNext ==
    \/ \E iv \in Intervals : MonStart(iv)
    \/ \E o \in Outcomes : MonTestReturns(o)
    \/ MonCheck
    \/ \E o \in Outcomes : MonCheckReturns(o)
    \/ MonSleep
    \/ MonHandlerSleep
    \/ MonInterrupt
    \/ MonInterruptOutside
    \/ MonExit

\* The fleet analysis.
BatchNext ==
    \/ BatchStart
    \/ \E o \in Outcomes : BatchListReturns(o)
    \/ BatchNextPod
    \/ \E o \in Outcomes : BatchAnalysisReturns(o)
    \/ BatchReturn
    \/ BatchExit

Next == ClientNext \/ MonitorNext \/ BatchNext

Spec == Init /\ [][Next]_vars

----------------------------------------------------------------------------
(* Specification: handle_prometheus_alert invoked concurrently, each
   invocation with its own alert, its own client and its own post. *)

\* Two alerts that differ in name and description.
ConcAlerts ==
    { a \in Alerts :
        /\ "annotations" \in Keys(a)
        /\ Keys(a.items["labels"]) = {"alertname"}
        /\ Keys(a.items["annotations"]) \in {{"description"}, {"description", "summary"}}
        /\ (a.items["labels"].items["alertname"] = PyStr("HighPodCPU"))
              <=> (a.items["annotations"].items["description"] = PyStr("Pod X using 85% CPU")) }

\* A confident reply, an unsure reply and a refused connection.
ConcOutcomes ==
    { o \in Outcomes :
        \/ o.exc = "ConnectionError" /\ o.text = "Connection refused"
        \/ /\ o.status = HTTP_OK
           /\ o.text \notin BadBodies
           /\ ParseJson(o.text, o.jsonexc).val \in
                 { PyDict([answer |-> PyStr("Restart pod"), confidence |-> PyNum(92),
                           sources |-> PyList(<<"kb">>),
                           recommendations |-> PyList(<<"restart">>)]),
                   PyDict([answer |-> PyStr("Unclear"), confidence |-> PyNum(45)]) } }

ConcNext ==
    \/ Tick
    \/ \E p \in Procs, a \in ConcAlerts : Invoke(p, a, CONFIDENCE_THRESHOLD)
    \/ \E p \in Procs : Build(p)
    \/ \E p \in Procs : SendQuery(p)
    \/ \E p \in Procs, o \in ConcOutcomes : QueryReturns(p, o)
    \/ \E p \in Procs : Extract(p)
    \/ \E p \in Procs : Act(p)
    \/ \E p \in Procs : Finish(p)

ConcSpec == Init /\ [][ConcNext]_vars

----------------------------------------------------------------------------
(* Specification: the responder's main handles one alert, prints the
   decision, and the print is read back. *)

JsonNext ==
    \/ \E p \in MainProcs, a \in Alerts : Invoke(p, a, CONFIDENCE_THRESHOLD)
    \/ \E p \in MainProcs : Build(p)
    \/ \E p \in MainProcs : SendQuery(p)
    \/ \E p \in MainProcs, o \in Outcomes : QueryReturns(p, o)
    \/ \E p \in MainProcs : Extract(p)
    \/ \E p \in MainProcs : Act(p)
    \/ \E p \in MainProcs : DumpResult(p)
    \/ ReadBack
    \/ \E p \in MainProcs : Finish(p)

JsonSpec == Init /\ [][JsonNext]_vars

\* The posts that end in a timeout.
Timeouts == {o \in Outcomes : o.exc = "Timeout"}

(* The responder and the client with the fairness the HTTP layer gives: while a post is
   outstanding time goes on, and once the timer has expired requests raises
   Timeout. Nothing is assumed of the assistant: it need never answer. *)
LiveSpec ==
    /\ Init /\ [][ClientNext]_vars
    /\ \A c \in MainProcs \cup {MainClient} : WF_vars(Wait(c))
    /\ \A p \in MainProcs : WF_vars(\E o \in Timeouts : QueryReturns(p, o))
    /\ WF_vars(\E o \in Timeouts : DemoQueryReturns(o))
    /\ WF_vars(\E o \in Timeouts : DemoRecommendReturns(o))

----------------------------------------------------------------------------
(* Vocabulary of the properties *)

\* The reply is a mapping that carries an error.
CarriesError(v) == v.kind = "dict" /\ "error" \in Keys(v)

\* The reply is a mapping that carries no error.
IsSuccess(v) == v.kind = "dict" /\ "error" \notin Keys(v)

\* The value of a field of a mapping, or the given default when it is absent.
FieldOr(v, key, default) == IF key \in Keys(v) THEN v.items[key] ELSE default

\* The post failed: transport failure, status other than 200, or a body that is no JSON.
CallFailed(o) ==
    \/ o.exc # ""
    \/ o.status # HTTP_OK
    \/ o.text \in BadBodies

\* The failure shape {'error': message} with a non-empty message.
IsFailureShape(v) ==
    /\ v.kind = "dict"
    /\ Keys(v) = {"error"}
    /\ v.items["error"].kind = "str"
    /\ v.items["error"].s # ""

\* The success shape: a mapping of answer fields without an error.
IsSuccessShape(v) ==
    /\ v.kind = "dict"
    /\ Keys(v) \subseteq {"answer", "confidence", "sources", "recommendations"}

\* client.query has returned to invocation p.
QueryReturned(p) == pc[p] \in {"queried", "extracted", "done", "raised_extract", "raised_decide"}

\* extract_insights has returned to invocation p.
ExtractReturned(p) == pc[p] \in {"extracted", "done", "raised_decide"}

\* Invocation p is over, by a return or by an exception.
HandlerOver(p) == pc[p] \in {"done"} \cup RaisedPcs

ActionOf(p) == result[p].items["action"].s

----------------------------------------------------------------------------
(* C1: once the handler is over for a reply that is a mapping with an error
   or with a numeric (or absent) confidence c, it has returned a decision;
   the action is auto_remediate iff the reply is a success and c > 0.8,
   escalate iff it is a success and c <= 0.8, error iff the reply carries an
   error; a success with c exactly 0.8 escalates. *)
C1_DecisionByConfidence ==
    \A p \in Procs :
        LET r == analysis[p]
            c == FieldOr(r, "confidence", PyNum(0))
        IN  (HandlerOver(p) /\ QueryReturned(p) /\ r.kind = "dict"
               /\ (CarriesError(r) \/ c.kind = "num"))
            => /\ pc[p] = "done"
               /\ ActionOf(p) \in {"auto_remediate", "escalate", "error"}
               /\ ActionOf(p) = "auto_remediate" <=> (IsSuccess(r) /\ c.n > CONFIDENCE_THRESHOLD)
               /\ ActionOf(p) = "escalate" <=> (IsSuccess(r) /\ c.n <= CONFIDENCE_THRESHOLD)
               /\ ActionOf(p) = "error" <=> CarriesError(r)
               /\ (IsSuccess(r) /\ c.n = CONFIDENCE_THRESHOLD) => ActionOf(p) = "escalate"

\* A reply with confidence exactly 0.8 has been escalated.
C1_Witness ==
    \E p \in Procs :
        /\ pc[p] = "done"
        /\ IsSuccess(analysis[p])
        /\ FieldOr(analysis[p], "confidence", PyNum(0)) = PyNum(CONFIDENCE_THRESHOLD)
        /\ ActionOf(p) = "escalate"

----------------------------------------------------------------------------
(* C2 as stated: the classification compares the confidence against the
   threshold t the caller supplies: a returned decision on a success reply
   with numeric confidence c is auto_remediate iff c > t. *)
C2_InjectedThreshold ==
    \A p \in Procs :
        LET c == FieldOr(analysis[p], "confidence", PyNum(0))
        IN  (pc[p] = "done" /\ IsSuccess(analysis[p]))
            => (ActionOf(p) = "auto_remediate" <=> c.n > threshold[p])

(* C2 as amended: the handler takes no threshold; whatever threshold t the
   caller has configured, a returned decision on a success reply with
   confidence c is auto_remediate iff c > 0.8 and escalate otherwise, so the
   action does not vary with t. *)
C2_FixedThreshold ==
    \A p \in Procs :
        LET c == FieldOr(analysis[p], "confidence", PyNum(0))
        IN  (pc[p] = "done" /\ IsSuccess(analysis[p]))
            => \A t \in Thresholds :
                  threshold[p] = t =>
                      ActionOf(p) = IF c.n > CONFIDENCE_THRESHOLD
                                    THEN "auto_remediate" ELSE "escalate"

\* A caller configured with 0.5 got an escalation for a confidence of 0.8.
C2_Witness ==
    \E p \in Procs :
        /\ pc[p] = "done"
        /\ threshold[p] = 50
        /\ IsSuccess(analysis[p])
        /\ FieldOr(analysis[p], "confidence", PyNum(0)) = PyNum(80)
        /\ ActionOf(p) = "escalate"

----------------------------------------------------------------------------
(* C3: query and get_recommendations never raise to their caller, and when
   the post failed (connection refused, DNS failure, timeout, status other
   than 200, body that is no JSON) they return {'error': message} with a
   non-empty message. *)
C3_ClientNeverRaises ==
    /\ \A p \in Procs : pc[p] # "raised_query"
    /\ dpc \notin {"query_raised", "recs_raised"}
    /\ \A p \in Procs :
          (QueryReturned(p) /\ CallFailed(outcome[p])) => IsFailureShape(analysis[p])
    /\ (dpc \in {"query_returned", "recs_returned"} /\ CallFailed(doutcome))
          => IsFailureShape(dret)

\* get_recommendations has turned a body that is no JSON, on an installation
\* where json() raises ValueError, into the failure shape.
C3_Witness ==
    /\ dpc = "recs_returned"
    /\ doutcome.status = HTTP_OK
    /\ doutcome.text \in BadBodies
    /\ doutcome.jsonexc = "ValueError"
    /\ dret = ErrorDict("Unexpected error: " \o JsonErrorText)

----------------------------------------------------------------------------
(* C4 as stated: every value query returns is a mapping in exactly one of the
   two shapes, the success payload (answer, confidence, sources,
   recommendations, no error) or the failure payload (error only). *)
C4_TaggedUnion ==
    /\ \A p \in Procs :
          QueryReturned(p) => (IsSuccessShape(analysis[p]) \/ IsFailureShape(analysis[p]))
    /\ dpc = "query_returned" => (IsSuccessShape(dret) \/ IsFailureShape(dret))

----------------------------------------------------------------------------
(* C5 as stated, for the alerts that carry an annotations mapping (an alert
   without one is the case of C8): the responder never raises, and what it
   returns is a decision whose action is auto_remediate, escalate or error. *)
C5_AlwaysDecides ==
    \A p \in Procs :
        "annotations" \in Keys(alert[p])
        => /\ pc[p] \notin RaisedPcs
           /\ pc[p] = "done" => ActionOf(p) \in {"auto_remediate", "escalate", "error"}

----------------------------------------------------------------------------
(* C6 as stated: extract_insights never fails on a value the client returned,
   and what it returns is an Insight with status success or error. *)
C6_ExtractTotal ==
    \A p \in Procs :
        /\ pc[p] # "raised_extract"
        /\ ExtractReturned(p) =>
              insights[p].items["status"] \in {PyStr("success"), PyStr("error")}

----------------------------------------------------------------------------
(* C7: for every reply that is a mapping extract_insights returns; a reply
   that carries an error gives exactly {status: error, message: the reply's
   error}; any other gives status success with answer, confidence, sources
   and recommendations copied from the reply, an absent field replaced by
   '', 0.0, [] and [], so a reply lacking confidence gives confidence 0.0. *)
C7_ExtractMapsReply ==
    \A p \in Procs :
        LET r == analysis[p]
            i == insights[p]
        IN  (pc[p] \in {"extracted", "done", "raised_extract", "raised_decide"}
               /\ r.kind = "dict")
            => /\ ExtractReturned(p)
               /\ CarriesError(r) =>
                     i = PyDict([status |-> PyStr("error"), message |-> r.items["error"]])
               /\ IsSuccess(r) =>
                     /\ i.kind = "dict"
                     /\ {"status", "answer", "confidence", "sources", "recommendations"}
                           \subseteq Keys(i)
                     /\ "message" \notin Keys(i)
                     /\ i.items["status"] = PyStr("success")
                     /\ i.items["answer"] = FieldOr(r, "answer", PyStr(""))
                     /\ i.items["confidence"] = FieldOr(r, "confidence", PyNum(0))
                     /\ i.items["sources"] = FieldOr(r, "sources", PyList(<<>>))
                     /\ i.items["recommendations"] = FieldOr(r, "recommendations", PyList(<<>>))
                     /\ "confidence" \notin Keys(r) => i.items["confidence"] = PyNum(0)

\* The empty reply {} has been extracted: every field took its default.
C7_Witness ==
    \E p \in Procs :
        /\ pc[p] = "extracted"
        /\ analysis[p] = PyDict(NoItems)
        /\ insights[p].items["answer"] = PyStr("")
        /\ insights[p].items["confidence"] = PyNum(0)
        /\ insights[p].items["sources"] = PyList(<<>>)
        /\ insights[p].items["recommendations"] = PyList(<<>>)

----------------------------------------------------------------------------
(* C8 as stated: building the context never rejects an alert that has a name
   (also one with no annotations at all); the context holds the name, the
   namespace or "default", the severity or "warning", the description or "",
   and the question is the fixed prefix followed by that description. *)
C8_BuildContextTotal ==
    \A p \in Procs :
        LET labels == alert[p].items["labels"]
            description ==
                IF "annotations" \in Keys(alert[p])
                THEN FieldOr(alert[p].items["annotations"], "description", PyStr(""))
                ELSE PyStr("")
        IN  /\ pc[p] # "raised_build"
            /\ pc[p] \notin {"idle", "called", "raised_build"} =>
                  context[p] = PyDict([alert_name |-> labels.items["alertname"],
                                       namespace |-> FieldOr(labels, "namespace", PyStr("default")),
                                       severity |-> FieldOr(labels, "severity", PyStr("warning")),
                                       description |-> description])
            /\ request[p] # PyNone =>
                  request[p].items["question"] =
                      PyStr("Analyze this alert and suggest remediation: " \o description.s)

----------------------------------------------------------------------------
(* C9: a returned decision with action error carries no confidence; one with
   action auto_remediate or escalate carries the alert's name and the
   confidence of the Insight it was derived from, 0.0 when the reply had
   none. *)
C9_ConfidenceOnlyWithoutError ==
    \A p \in Procs :
        pc[p] = "done" =>
            /\ ActionOf(p) = "error" => "confidence" \notin Keys(result[p])
            /\ ActionOf(p) \in {"auto_remediate", "escalate"} =>
                  /\ result[p].items["alert"] = alert[p].items["labels"].items["alertname"]
                  /\ result[p].items["confidence"] = insights[p].items["confidence"]
                  /\ "confidence" \notin Keys(analysis[p]) =>
                        result[p].items["confidence"] = PyNum(0)

\* An error decision has been returned, and it has no confidence.
C9_Witness ==
    \E p \in Procs :
        /\ pc[p] = "done"
        /\ ActionOf(p) = "error"
        /\ Keys(result[p]) = {"action", "message"}

----------------------------------------------------------------------------
(* C10: whenever the post fails, query returns {'error': message} with a
   non-empty message, line 95 is never evaluated, and the handler ends by
   returning (not raising) a decision with action error whose message is
   exactly that message. *)
C10_FailureGivesErrorDecision ==
    \A p \in Procs :
        (pc[p] \notin {"idle", "called", "built", "waiting", "raised_build"}
           /\ CallFailed(outcome[p]))
        => /\ QueryReturned(p)
           /\ IsFailureShape(analysis[p])
           /\ ~compared[p]
           /\ HandlerOver(p) =>
                 /\ pc[p] = "done"
                 /\ ActionOf(p) = "error"
                 /\ result[p].items["message"] = analysis[p].items["error"]

\* A timed-out post has ended in an error decision that carries its message.
C10_Witness ==
    \E p \in Procs :
        /\ pc[p] = "done"
        /\ outcome[p].exc = "Timeout"
        /\ ~compared[p]
        /\ result[p] = PyDict([action |-> PyStr("error"),
                               message |-> PyStr("Request failed: Read timed out.")])

----------------------------------------------------------------------------
(* C12: an invocation never posts more than once; it has posted nothing
   before its context is built and exactly once from then on, whether the
   post succeeded or failed; and the steps come in the order build context,
   query, extract, decide: a payload is posted only with a context, a reply
   is held only for a posted payload, an Insight only for a returned reply,
   a decision only for an Insight. *)
C12_OneQueryInOrder ==
    \A p \in Procs :
        /\ posts[p] <= 1
        /\ pc[p] \in {"idle", "called", "built", "raised_build"} =>
              posts[p] = 0 /\ request[p] = PyNone /\ outcome[p] = NoOutcome
        /\ pc[p] \in {"waiting", "queried", "extracted", "done",
                      "raised_query", "raised_extract", "raised_decide"} =>
              posts[p] = 1 /\ context[p] # PyNone /\ request[p] # PyNone
        /\ outcome[p] # NoOutcome => request[p] # PyNone
        /\ insights[p] # PyNone => QueryReturned(p) /\ outcome[p] # NoOutcome
        /\ result[p] # PyNone => insights[p] # PyNone
        /\ compared[p] => insights[p] # PyNone

\* A post that failed has been followed to the decision without a second post.
C12_Witness ==
    \E p \in Procs :
        /\ pc[p] = "done"
        /\ CallFailed(outcome[p])
        /\ posts[p] = 1

----------------------------------------------------------------------------
(* C15: for /query and /recommendations alike, when the post returned a
   response, the client returns the parsed body if the status is exactly 200
   (and the body is JSON), and for any other status, 201 included, it returns
   the failure whose message is "HTTP <status>: <raw body text>"; so a parsed
   body is returned only for status 200. *)
C15_OnlyStatus200IsSuccess ==
    LET Right(o, ret) ==
            o.exc = "" =>
                /\ (o.status = HTTP_OK /\ o.text \notin BadBodies)
                      => ret = ParseJson(o.text, o.jsonexc).val
                /\ o.status # HTTP_OK
                      => ret = ErrorDict("HTTP " \o ToString(o.status) \o ": " \o o.text)
    IN  /\ \A p \in Procs : QueryReturned(p) => Right(outcome[p], analysis[p])
        /\ dpc \in {"query_returned", "recs_returned"} => Right(doutcome, dret)

\* get_recommendations has turned a 201 with a JSON body into a failure.
C15_Witness ==
    /\ dpc = "recs_returned"
    /\ doutcome.status = 201
    /\ doutcome.text = "{\"answer\":\"Restart pod\"}"
    /\ dret = ErrorDict("HTTP 201: {\"answer\":\"Restart pod\"}")

----------------------------------------------------------------------------
(* C13: every call of query or get_recommendations eventually returns, and a
   call whose post got no answer within the timeout has returned the failure
   shape. *)
C13_CallsReturn ==
    /\ \A c \in Callers : Posted(c) ~> ~Posted(c)
    /\ [](\A p \in Procs :
             (QueryReturned(p) /\ outcome[p].exc = "Timeout") => IsFailureShape(analysis[p]))
    /\ []((dpc \in {"query_returned", "recs_returned"} /\ doutcome.exc = "Timeout")
             => IsFailureShape(dret))

\* get_recommendations has returned a failure after a post that timed out.
C13_Witness ==
    /\ dpc = "recs_returned"
    /\ doutcome.exc = "Timeout"
    /\ IsFailureShape(dret)

----------------------------------------------------------------------------
(* C11: under every interleaving of concurrent invocations, each invocation
   that is over has returned one decision after one post, and its context,
   its question and its decision's alert name, confidence and analysis come
   from its own alert and from the reply to its own post. *)
C11_NoCrossContamination ==
    \A p \in Procs :
        LET name == alert[p].items["labels"].items["alertname"]
            description == alert[p].items["annotations"].items["description"]
            reply == analysis[p]
        IN  /\ context[p] # PyNone =>
                  /\ context[p].items["alert_name"] = name
                  /\ context[p].items["description"] = description
            /\ request[p] # PyNone =>
                  /\ request[p].items["context"] = context[p]
                  /\ request[p].items["question"] =
                        PyStr("Analyze this alert and suggest remediation: " \o description.s)
            /\ QueryReturned(p) =>
                  reply = IF outcome[p].exc # ""
                          THEN ErrorDict("Request failed: " \o outcome[p].text)
                          ELSE ParseJson(outcome[p].text, outcome[p].jsonexc).val
            /\ HandlerOver(p) =>
                  /\ pc[p] = "done"
                  /\ posts[p] = 1
                  /\ ActionOf(p) = "error" =>
                        result[p].items["message"] = reply.items["error"]
                  /\ ActionOf(p) # "error" =>
                        /\ result[p].items["alert"] = name
                        /\ result[p].items["confidence"] = reply.items["confidence"]
                  /\ ActionOf(p) = "auto_remediate" =>
                        result[p].items["analysis"] = reply.items["answer"]
                  /\ ActionOf(p) = "escalate" =>
                        result[p].items["analysis"].items["answer"] = reply.items["answer"]

\* Two invocations, on different alerts and with different replies, are both
\* over while neither has been collected.
C11_Witness ==
    /\ pc[1] = "done" /\ pc[2] = "done"
    /\ alert[1] # alert[2]
    /\ ActionOf(1) = "auto_remediate" /\ ActionOf(2) = "escalate"

----------------------------------------------------------------------------
(* C14 as stated: two extractions of the same reply yield identical Insights,
   and two runs on the same alert with the same reply yield identical
   decisions. *)
C14_Deterministic ==
    \A p, q \in Procs :
        /\ (ExtractReturned(p) /\ ExtractReturned(q) /\ analysis[p] = analysis[q])
              => insights[p] = insights[q]
        /\ (pc[p] = "done" /\ pc[q] = "done" /\ analysis[p] = analysis[q]
              /\ alert[p] = alert[q])
              => result[p] = result[q]

\* A mapping without its timestamp.
WithoutTimestamp(v) == PyDict([k \in Keys(v) \ {"timestamp"} |-> v.items[k]])

(* C14 as amended: two extractions of the same reply yield Insights that are
   identical except for the timestamp field, which holds the time of the
   extraction; two runs on the same alert with the same reply yield the same
   action, identical error and auto_remediate decisions, and escalate
   decisions that differ at most in the timestamp of the embedded Insight. *)
C14_DeterministicButTimestamp ==
    \A p, q \in Procs :
        /\ (ExtractReturned(p) /\ ExtractReturned(q) /\ analysis[p] = analysis[q])
              => /\ WithoutTimestamp(insights[p]) = WithoutTimestamp(insights[q])
                 /\ Keys(insights[p]) = Keys(insights[q])
        /\ (pc[p] = "done" /\ pc[q] = "done" /\ analysis[p] = analysis[q]
              /\ alert[p] = alert[q])
              => /\ ActionOf(p) = ActionOf(q)
                 /\ ActionOf(p) \in {"error", "auto_remediate"} => result[p] = result[q]
                 /\ ActionOf(p) = "escalate" =>
                       /\ [result[p] EXCEPT !.items["analysis"] = PyNone]
                             = [result[q] EXCEPT !.items["analysis"] = PyNone]
                       /\ WithoutTimestamp(result[p].items["analysis"])
                             = WithoutTimestamp(result[q].items["analysis"])

\* Two runs on the same alert and reply have escalated, with Insights taken
\* at different times.
C14_Witness ==
    /\ pc[1] = "done" /\ pc[2] = "done"
    /\ alert[1] = alert[2] /\ analysis[1] = analysis[2]
    /\ ActionOf(1) = "escalate"
    /\ insights[1].items["timestamp"] # insights[2].items["timestamp"]

----------------------------------------------------------------------------
(* C17: query_lightspeed and LightspeedClient.query classify every outcome of
   a post alike: whatever the status code, the body or the transport failure,
   what query_lightspeed returned is what query returns for that outcome,
   the parsed body or the same error message. *)
C17_SameClassification ==
    moutcome # NoOutcome =>
        /\ Query(moutcome).raised = ""
        /\ mresp = Query(moutcome).val

----------------------------------------------------------------------------
(* C18: in the monitoring loop the counters satisfy
   0 <= error_count <= check_count after any sequence of checks, exceptions
   and sleeps, one health check raises error_count by at most one, and
   check_count is at least 1 whenever the success rate is computed, on a
   keyboard interrupt included. *)
C18_CountersConsistent ==
    /\ 0 <= error_count
    /\ error_count <= check_count
    /\ check_errors <= 1
    /\ rate.computed => (rate.raised = "" /\ rate.den >= 1)

----------------------------------------------------------------------------
\* The pods of sample_pods that are not running, in list order.
NotRunning == SelectSeq(sample_pods, LAMBDA pod : pod.status # "Running")

(* C19: analyze_pod_fleet queries the pod list first; when that query fails
   it issues no further query and returns an empty result; otherwise it
   returns one row per pod in list order, having issued one analysis query
   for each pod that is not running and none for a running pod; a running
   pod has confidence 1.0 and a pod whose analysis query failed has
   confidence 0.0. *)
C19_FleetAnalysis ==
    /\ bpc # "idle" => bposts >= 1
    /\ bpc = "listing" => (bposts = 1 /\ results = <<>>)
    /\ bpc # "crashed"
    /\ bpc = "returned_empty" => (bposts = 1 /\ results = <<>> /\ queried = <<>>)
    /\ bpc = "returned" =>
          /\ Len(results) = Len(sample_pods)
          /\ \A i \in 1..Len(results) :
                /\ results[i].pod = sample_pods[i].name
                /\ results[i].status = sample_pods[i].status
                /\ results[i].status = "Running" => results[i].confidence = PyNum(100)
                /\ (results[i].status # "Running" /\ CallFailed(replies[i]))
                      => results[i].confidence = PyNum(0)
          /\ queried = [i \in 1..Len(NotRunning) |-> NotRunning[i].name]
          /\ bposts = 1 + Len(NotRunning)

----------------------------------------------------------------------------
(* C16: for each of the three actions, printing the decision the responder
   returned as JSON and parsing the text back gives a decision equal to the
   one returned: the same fields with the same values. *)
C16_RoundTrip ==
    parsed.read =>
        /\ parsed.raised = ""
        /\ Keys(parsed.val) = Keys(result[1])
        /\ parsed.val = result[1]

\* An escalate decision, with its embedded Insight, has been printed and read back.
C16_Witness ==
    /\ parsed.read
    /\ pc[1] = "done"
    /\ ActionOf(1) = "escalate"
    /\ result[1].items["confidence"] = PyNum(45)
    /\ parsed.val.items["analysis"].items["recommendations"] = PyList(<<>>)

====
